---- MODULE Spec2Model ----
(***************************************************************************)
(* Model of the match / wallet settlement core of LaunchWaitlist:          *)
(* MemStorage (server storage), the HTTP routes that move money            *)
(* (server routes) and the registration route (server auth).               *)
(*                                                                         *)
(* Scheduling.  Node runs one macrotask at a time.  Every await inside a   *)
(* route handler or a timer callback awaits a MemStorage method, which     *)
(* resolves on the microtask queue, so a handler body and a timer callback *)
(* run to completion before the next request or timer is served: one       *)
(* action per handler / callback.  setTimeout callbacks are separate       *)
(* actions that fire when their delay has elapsed (variable timers).       *)
(*                                                                         *)
(* Money is counted in units of 1/400 rupee, so that the server's          *)
(* unrounded commission (amount * pct * 0.75 / 100) is exact for amounts   *)
(* in whole rupees.  JavaScript numbers are modelled as the integers plus  *)
(* NaN: parseFloat of a request string that is no numeral yields NaN, NaN  *)
(* propagates through + and *, and every comparison with NaN is false.     *)
(***************************************************************************)
EXTENDS Integers, Sequences, FiniteSets, TLC

\* ---------------------------------------------------------------- bounds
MaxUsers == 3
MaxMatches == 1
MaxTx == 13
MaxLedgerTx == 4
MaxSubscriptions == 2
MaxDuration == 2
MaxDay == 3
MaxPool == 20
MaxSockets == 2
MaxSends == 102
MaxGameSends == 2
MaxStarts == 2

\* ------------------------------------------------------ program constants
MinPlayRupees == 200
MinDepositRupees == 100
ReferralBonusRupees == 10
AiWalletRupees == 10000
SignupPoints == 25
ReferralPoints == 100
AiJoinDelay == 2
AutoStartDelay == 3
AutoCompleteDelay == 5
AdminId == 1
SubscriptionPriceRupees == 300
SubscriptionDays == 30
BasicDailyReward == 857
StandardDailyReward == 1714
StandardTierRupees == 2000
PremiumDailyReward == 11428
PremiumTierRupees == 10000

Rupee == 4 * 100
Null == 0
HistoryLimit == 100

\* ------------------------------------------------------------ JS numbers
NaN == 0 - 999999999
BadInput == 0 - 999999998

parseFloat(s) == IF s = BadInput THEN NaN ELSE s

NumAdd(a, b) == IF a = NaN \/ b = NaN THEN NaN ELSE a + b
NumNeg(a) == IF a = NaN THEN NaN ELSE 0 - a
NumSub(a, b) == NumAdd(a, NumNeg(b))
NumMul(a, b) == IF a = NaN \/ b = NaN THEN NaN ELSE a * b
NumLt(a, b) == a # NaN /\ b # NaN /\ a < b
NumLe(a, b) == a # NaN /\ b # NaN /\ a <= b
NumGt(a, b) == NumLt(b, a)

\* ---------------------------------------------------------------- state
VARIABLES users, wallets, transactions, gameMatches, playerMatches, timers, res,
          subscriptions, subscriptionRewards, today, calc,
          activeUsers, chatRooms, messageHistory, socketRooms, emitted, accepted,
          starting

vars == <<users, wallets, transactions, gameMatches, playerMatches, timers, res,
          subscriptions, subscriptionRewards, today, calc,
          activeUsers, chatRooms, messageHistory, socketRooms, emitted, accepted,
          starting>>

\* the Socket.IO layer: its three maps, the rooms each connected socket is
\* in, what the last handler emitted, and every message accepted so far
chatLayer == <<activeUsers, chatRooms, messageHistory, socketRooms, emitted, accepted>>

\* the state outside MemStorage: a call of the commission functions, the
\* Socket.IO layer, and the start requests taken one await at a time
outsideStore == <<calc, chatLayer, starting>>

\* the state the wallet and match routes never write
outsideLedger == <<subscriptions, subscriptionRewards, today, outsideStore>>

\* seedGames: the first catalogue entry (Ludo Royal)
games == <<[minEntry |-> 200 * Rupee, maxEntry |-> 1000 * Rupee, commissionPercentage |-> 10]>>

gameExists(id) == id \in 1..Len(games)
getGame(id) == games[id]

\* --------------------------------------------------------- MemStorage
\* Maps keyed by an incrementing id are sequences: the id is the index.

\* users.find(username equal, ignoring case); Null when absent
getUserByUsername(us, name) ==
    IF \E i \in 1..Len(us) : us[i].username = name
    THEN CHOOSE i \in 1..Len(us) :
             /\ us[i].username = name
             /\ \A j \in 1..(i - 1) : us[j].username # name
    ELSE Null

createUser(us, name, referredBy, points) ==
    Append(us, [username |-> name, referredBy |-> referredBy,
                rewardPoints |-> points, referralCode |-> FALSE,
                subscriptionExpiryDate |-> Null])

\* expiry = now + durationDays, or the running expiry extended; dates are
\* counted in days
addSubscription(us, userId, durationDays, now) ==
    IF userId \in 1..Len(us)
    THEN [us EXCEPT ![userId].subscriptionExpiryDate =
             IF @ # Null /\ @ > now THEN @ + durationDays ELSE now + durationDays]
    ELSE us

addRewardPoints(us, userId, points) ==
    IF userId \in 1..Len(us)
    THEN [us EXCEPT ![userId].rewardPoints = @ + points]
    ELSE us

generateReferralCode(us, userId) ==
    IF userId \in 1..Len(us)
    THEN [us EXCEPT ![userId].referralCode = TRUE]
    ELSE us

\* the wallet id of the first wallet of userId; Null when absent
getWallet(ws, userId) ==
    IF \E w \in 1..Len(ws) : ws[w].userId = userId
    THEN CHOOSE w \in 1..Len(ws) :
             /\ ws[w].userId = userId
             /\ \A v \in 1..(w - 1) : ws[v].userId # userId
    ELSE Null

walletBalanceOf(ws, userId) == parseFloat(ws[getWallet(ws, userId)].balance)

createWallet(ws, userId, balance) ==
    Append(ws, [userId |-> userId, balance |-> balance])

\* updateWalletBalance returns undefined (and writes nothing) when the user
\* has no wallet or when newBalance < 0
updateWalletRejected(ws, userId, amount) ==
    \/ getWallet(ws, userId) = Null
    \/ NumLt(NumAdd(walletBalanceOf(ws, userId), amount), 0)

updateWalletBalance(ws, userId, amount) ==
    IF updateWalletRejected(ws, userId, amount)
    THEN ws
    ELSE [ws EXCEPT ![getWallet(ws, userId)].balance = NumAdd(@, amount)]

\* ref: the match of a game transaction (its description carries
\* "Match #id" for game_entry) or the deposit request an approval answers
createTransaction(txs, userId, amount, type, status, commission, ref) ==
    Append(txs, [userId |-> userId, amount |-> amount, type |-> type,
                 status |-> status, commissionAmount |-> commission,
                 ref |-> ref])

createGameMatch(ms, gameId, entryAmount) ==
    Append(ms, [gameId |-> gameId, entryAmount |-> entryAmount,
                status |-> "waiting", startTime |-> FALSE,
                endTime |-> FALSE, winnerId |-> Null])

\* partial-field merge of {status, startTime} / {status, endTime, winnerId}
updateGameMatch(ms, id, matchData) ==
    IF id \in 1..Len(ms)
    THEN [ms EXCEPT ![id] =
             [f \in DOMAIN ms[id] |->
                 IF f \in DOMAIN matchData THEN matchData[f] ELSE ms[id][f]]]
    ELSE ms

addPlayerToMatch(pms, matchId, userId) ==
    Append(pms, [matchId |-> matchId, userId |-> userId, status |-> "joined"])

\* ids of the PlayerMatch rows of a match, in insertion order
RECURSIVE getMatchPlayersFrom(_, _, _)
getMatchPlayersFrom(pms, matchId, i) ==
    IF i > Len(pms) THEN <<>>
    ELSE IF pms[i].matchId = matchId
         THEN <<i>> \o getMatchPlayersFrom(pms, matchId, i + 1)
         ELSE getMatchPlayersFrom(pms, matchId, i + 1)

getMatchPlayers(pms, matchId) == getMatchPlayersFrom(pms, matchId, 1)

updatePlayerMatchStatus(pms, id, status) ==
    IF id \in 1..Len(pms)
    THEN [pms EXCEPT ![id].status = status]
    ELSE pms

\* (num / den).toFixed(2): the multiple of a cent nearest to the quotient
toFixed2(num, den) ==
    IF num = NaN THEN NaN
    ELSE ((2 * num + den * (Rupee \div 100)) \div (2 * den * (Rupee \div 100)))
             * (Rupee \div 100)

\* the rows pushed by one "for (day = 1; day <= duration; day++)" loop
rewardRows(userId, subscriptionId, amount, duration) ==
    [day \in 1..duration |->
        [userId |-> userId, subscriptionId |-> subscriptionId,
         amount |-> amount, day |-> day, status |-> "pending"]]

createSubscriptionRewards(rws, rewards) == rws \o rewards

\* stores the subscription and, itself, one reward row per day of
\* rewardAmount / duration
createGameSubscription(subs, rws, userId, amount, rewardAmount, duration, startDate) ==
    LET id == Len(subs) + 1
        dailyRewardAmount == toFixed2(parseFloat(rewardAmount), duration)
    IN [subscriptions |->
            Append(subs, [userId |-> userId, amount |-> amount,
                          rewardAmount |-> rewardAmount, duration |-> duration,
                          startDate |-> startDate, status |-> "active"]),
        subscriptionRewards |->
            createSubscriptionRewards(rws,
                rewardRows(userId, id, dailyRewardAmount, duration))]

\* the day a reward falls due: subscription start date + (day - 1)
rewardDate(subs, reward) == subs[reward.subscriptionId].startDate + (reward.day - 1)

\* ids of the pending rewards due on date, in insertion order
RECURSIVE getPendingRewardsFrom(_, _, _, _)
getPendingRewardsFrom(subs, rws, date, i) ==
    IF i > Len(rws) THEN <<>>
    ELSE IF /\ rws[i].subscriptionId \in 1..Len(subs)
            /\ rws[i].status = "pending"
            /\ rewardDate(subs, rws[i]) = date
         THEN <<i>> \o getPendingRewardsFrom(subs, rws, date, i + 1)
         ELSE getPendingRewardsFrom(subs, rws, date, i + 1)

getPendingRewardsByDate(subs, rws, date) == getPendingRewardsFrom(subs, rws, date, 1)

\* a status write that is lost
updateRewardStatusLost(rws, id, status) == rws

updateRewardStatus(rws, id, status) ==
    IF id \in 1..Len(rws) THEN [rws EXCEPT ![id].status = status] ELSE rws

\* ----------------------------------------------------------- routes
\* Calculate commission (server): no rounding
calculateCommission(amount, percentage, subscriber) ==
    IF NumLe(amount, 0) \/ NumLe(percentage, 0) THEN 0
    ELSE IF subscriber
         THEN IF amount = NaN THEN NaN ELSE (amount * percentage * 3) \div 400
         ELSE IF amount = NaN THEN NaN ELSE (amount * percentage) \div 100

\* commissionPercentage * 0.75 for a subscriber, in quarters of a point
\* (a discount of one half)
adjustedCommissionPercentageHalved(commissionPercentage, subscriber) ==
    IF subscriber THEN 2 * commissionPercentage ELSE 4 * commissionPercentage

adjustedCommissionPercentage(commissionPercentage, subscriber) ==
    IF subscriber THEN 3 * commissionPercentage ELSE 4 * commissionPercentage

\* <<prizePool in rupees, commissionPercentage>> of the calls with the
\* subscriber discount, among prize pools up to 40 and 400, 402, 600, 603 and
\* percentages 5, 10, 15, 20, whose commission lies on half a cent and for
\* which the IEEE-754 double commission * 100 falls below the half
\* (17 * 7.5 / 100 * 100 = 127.49999999999999)
ieeeBelowHalf == {<<17, 10>>, <<29, 10>>, <<34, 5>>}

\* client helper calculateGameCommission: Math.round(commission * 100) / 100
calculateGameCommission(prizePool, commissionPercentage, subscriber) ==
    IF prizePool <= 0 \/ commissionPercentage <= 0 THEN 0
    ELSE LET cent == Rupee \div 100
             \* commission in units of cent / 100
             commission100 == (prizePool * 100
                 * adjustedCommissionPercentage(commissionPercentage, subscriber))
                     \div (4 * Rupee)
             floor == commission100 \div 100
             frac == commission100 % 100
             below == /\ subscriber
                      /\ <<prizePool \div Rupee, commissionPercentage>> \in ieeeBelowHalf
         IN IF frac > 50 \/ (frac = 50 /\ ~below)
            THEN (floor + 1) * cent ELSE floor * cent

\* ------------------------------------------------------- Socket.IO
\* a roomId or content that is empty (falsy); also currentRoom: null
NoRoom == ""
GameRoomInputs == {"game-1"}
PrivateRoomInputs == {"1-2"}
RoomIds == {"global"} \cup GameRoomInputs \cup PrivateRoomInputs

\* roomId.startsWith('game-')
startsWithGame(roomId) == roomId \in GameRoomInputs

\* activeUsers is a Map from socket.id, kept in insertion order
mapHas(m, socketId) == \E i \in 1..Len(m) : m[i].socketId = socketId

mapGet(m, socketId) == m[CHOOSE i \in 1..Len(m) : m[i].socketId = socketId]

mapSet(m, socketId, userId, currentRoom) ==
    LET entry == [socketId |-> socketId, userId |-> userId,
                  currentRoom |-> currentRoom]
    IN IF mapHas(m, socketId)
       THEN [i \in 1..Len(m) |-> IF m[i].socketId = socketId THEN entry ELSE m[i]]
       ELSE Append(m, entry)

mapDelete(m, socketId) ==
    LET keep(entry) == entry.socketId # socketId IN SelectSeq(m, keep)

\* chatRooms and messageHistory are Maps from roomId
roomSet(m, roomId, value) == (roomId :> value) @@ m

roomDelete(m, roomId) == [r \in DOMAIN m \ {roomId} |-> m[r]]

includes(participants, userId) ==
    \E i \in 1..Len(participants) : participants[i] = userId

filterOut(participants, userId) ==
    LET keep(id) == id # userId IN SelectSeq(participants, keep)

\* [...activeUsers.values()].filter(user => user.currentRoom === roomId).length
userCount(au, roomId) ==
    Cardinality({i \in 1..Len(au) : au[i].currentRoom = roomId})

\* the sockets io.to(roomId) reaches
inRoom(sr, roomId) == {socketId \in DOMAIN sr : roomId \in sr[socketId]}

emit(event, to, payload) == [event |-> event, to |-> to, payload |-> payload]

chat == [activeUsers |-> activeUsers, chatRooms |-> chatRooms,
         messageHistory |-> messageHistory, socketRooms |-> socketRooms,
         emitted |-> emitted]

\* socket.on('joinRoom')
joinRoom(c, socketId, userId, roomId) ==
    IF roomId = NoRoom THEN [c EXCEPT !.emitted = <<>>]
    ELSE LET au == mapSet(c.activeUsers, socketId, userId, roomId)
             sr == [c.socketRooms EXCEPT ![socketId] = @ \cup {roomId}]
             known == roomId \in DOMAIN c.chatRooms
             cr == IF known
                   THEN IF includes(c.chatRooms[roomId].participants, userId)
                        THEN c.chatRooms
                        ELSE [c.chatRooms EXCEPT ![roomId].participants =
                                 Append(@, userId)]
                   ELSE IF startsWithGame(roomId)
                        THEN roomSet(c.chatRooms, roomId,
                                 [type |-> "game", participants |-> <<userId>>])
                        ELSE c.chatRooms
             mh1 == IF ~known /\ startsWithGame(roomId)
                    THEN roomSet(c.messageHistory, roomId, <<>>)
                    ELSE c.messageHistory
             mh == IF roomId \in DOMAIN mh1 THEN mh1 ELSE roomSet(mh1, roomId, <<>>)
         IN [activeUsers |-> au, chatRooms |-> cr, messageHistory |-> mh,
             socketRooms |-> sr,
             emitted |-> <<emit("messageHistory", {socketId}, mh[roomId]),
                           emit("userCount", inRoom(sr, roomId), userCount(au, roomId)),
                           emit("message", inRoom(sr, roomId) \ {socketId},
                                [sender |-> "system", content |-> "joined",
                                 roomId |-> roomId])>>]

\* socket.on('leaveRoom')
leaveRoom(c, socketId, userId, roomId) ==
    IF roomId = NoRoom THEN [c EXCEPT !.emitted = <<>>]
    ELSE LET sr == [c.socketRooms EXCEPT ![socketId] = @ \ {roomId}]
             au == IF mapHas(c.activeUsers, socketId)
                   THEN mapSet(c.activeUsers, socketId,
                               mapGet(c.activeUsers, socketId).userId, NoRoom)
                   ELSE c.activeUsers
             known == roomId \in DOMAIN c.chatRooms
             participants == filterOut(c.chatRooms[roomId].participants, userId)
             deleted == /\ known
                        /\ c.chatRooms[roomId].type = "private"
                        /\ Len(participants) = 0
             cr == IF deleted THEN roomDelete(c.chatRooms, roomId)
                   ELSE IF known
                   THEN [c.chatRooms EXCEPT ![roomId].participants = participants]
                   ELSE c.chatRooms
             mh == IF deleted THEN roomDelete(c.messageHistory, roomId)
                   ELSE c.messageHistory
         IN [activeUsers |-> au, chatRooms |-> cr, messageHistory |-> mh,
             socketRooms |-> sr,
             emitted |-> <<emit("userCount", inRoom(sr, roomId),
                                userCount(au, roomId))>>]

\* socket.on('getMessageHistory')
getMessageHistory(c, socketId, roomId) ==
    [c EXCEPT !.emitted =
        <<emit("messageHistory", {socketId},
               IF roomId \in DOMAIN c.messageHistory
               THEN c.messageHistory[roomId] ELSE <<>>)>>]

\* history.shift() once the length has reached the limit, then history.push
push(history, message) ==
    IF Len(history) >= HistoryLimit
    THEN Append(Tail(history), message) ELSE Append(history, message)

\* socket.on('sendMessage'); randomUUID() is the ordinal of the accepted send
sendMessage(c, uuid, content, sender, roomId) ==
    IF content = NoRoom \/ roomId = NoRoom THEN [c EXCEPT !.emitted = <<>>]
    ELSE LET message == [id |-> uuid, sender |-> sender, content |-> content,
                         roomId |-> roomId]
         IN [c EXCEPT
                !.messageHistory =
                    IF roomId \in DOMAIN c.messageHistory
                    THEN [c.messageHistory EXCEPT ![roomId] = push(@, message)]
                    ELSE roomSet(c.messageHistory, roomId, <<message>>),
                !.emitted = <<emit("message", inRoom(c.socketRooms, roomId),
                                   message)>>]

\* socket.on('createPrivateRoom')
createPrivateRoom(c, socketId, userId, otherUserId, roomId) ==
    IF roomId = NoRoom \/ userId = Null \/ otherUserId = Null
        \/ roomId \in DOMAIN c.chatRooms
    THEN [c EXCEPT !.emitted = <<>>]
    ELSE LET others == {i \in 1..Len(c.activeUsers) :
                            c.activeUsers[i].userId = otherUserId}
             \* .find: the first entry of the other user
             first == CHOOSE i \in others : \A j \in others : i <= j
             room == [type |-> "private", participants |-> <<userId, otherUserId>>]
         IN [c EXCEPT
                !.chatRooms = roomSet(@, roomId, room),
                !.messageHistory = roomSet(@, roomId, <<>>),
                !.emitted =
                    IF others # {}
                       /\ c.activeUsers[first].socketId \in DOMAIN c.socketRooms
                    THEN <<emit("privateRoomCreated",
                                {c.activeUsers[first].socketId}, room)>>
                    ELSE <<>>]

\* socket.on('disconnect'); the socket is gone afterwards
disconnect(c, socketId) ==
    LET gone == roomDelete(c.socketRooms, socketId)
    IN IF ~mapHas(c.activeUsers, socketId)
       THEN [c EXCEPT !.socketRooms = gone, !.emitted = <<>>]
       ELSE LET userData == mapGet(c.activeUsers, socketId)
                currentRoom == userData.currentRoom
                known == currentRoom # NoRoom /\ currentRoom \in DOMAIN c.chatRooms
            IN [c EXCEPT
                   !.activeUsers = mapDelete(@, socketId),
                   !.socketRooms = gone,
                   !.chatRooms =
                       IF known
                       THEN [@ EXCEPT ![currentRoom].participants =
                                filterOut(@, userData.userId)]
                       ELSE @,
                   !.emitted =
                       IF known
                       THEN <<emit("userCount", inRoom(gone, currentRoom),
                                   userCount(c.activeUsers, currentRoom) - 1)>>
                       ELSE <<>>]

\* requireAuth: a session exists only for users created by /api/register
\* (the practice opponent's stored password is no valid hash)
Authenticated(us) == {u \in 1..Len(us) : us[u].referralCode}


Reply(op, code, m) == res' = [op |-> op, code |-> code, match |-> m]

store == <<users, wallets, transactions, gameMatches, playerMatches, timers>>

setTimeout(ts, kind, matchId, aiId, players, delay) ==
    Append(ts, [kind |-> kind, matchId |-> matchId, aiId |-> aiId,
                players |-> players, remaining |-> delay])

\* request inputs
UsernameInputs == {"AI_Player", "other"}
DepositInputs == {400 * Rupee}
WithdrawInputs == {400 * Rupee, BadInput}
EntryInputs == {200 * Rupee}

\* POST /api/register.  "other" stands for a username no user holds yet.
Register(username, referralCode) ==
    /\ UNCHANGED outsideLedger
    /\ Len(users) < MaxUsers
    /\ IF username = "AI_Player" /\ getUserByUsername(users, username) # Null
       THEN Reply("register", 400, Null) /\ UNCHANGED store
       ELSE LET referrerId ==
                    IF referralCode \in 1..Len(users) /\ users[referralCode].referralCode
                    THEN referralCode ELSE Null
                id == Len(users) + 1
                us1 == createUser(users, username, referrerId, SignupPoints)
                ws1 == createWallet(wallets, id, 0)
                us2 == IF referrerId # Null
                       THEN addRewardPoints(us1, referrerId, ReferralPoints) ELSE us1
                ws2 == IF referrerId # Null
                       THEN updateWalletBalance(
                                updateWalletBalance(ws1, referrerId, ReferralBonusRupees * Rupee),
                                id, ReferralBonusRupees * Rupee)
                       ELSE ws1
                txs == IF referrerId # Null
                       THEN createTransaction(
                                createTransaction(transactions, referrerId,
                                    ReferralBonusRupees * Rupee, "referral_bonus",
                                    "completed", 0, Null),
                                id, ReferralBonusRupees * Rupee, "referral_bonus",
                                "completed", 0, Null)
                       ELSE transactions
            IN /\ Len(txs) <= MaxTx
               /\ users' = generateReferralCode(us2, id)
               /\ wallets' = ws2
               /\ transactions' = txs
               /\ Reply("register", 201, Null)
               /\ UNCHANGED <<gameMatches, playerMatches, timers>>

\* POST /api/wallet/deposit
Deposit(userId, amount) ==
    /\ UNCHANGED outsideLedger
    /\ userId \in Authenticated(users)
    /\ IF NumLt(parseFloat(amount), MinDepositRupees * Rupee)
       THEN Reply("deposit", 400, Null) /\ UNCHANGED store
       ELSE /\ Len(transactions) < MaxTx
            /\ transactions' = createTransaction(transactions, userId, amount,
                                   "deposit", "pending", 0, Null)
            /\ Reply("deposit", 201, Null)
            /\ UNCHANGED <<users, wallets, gameMatches, playerMatches, timers>>

\* POST /api/wallet/approve-deposit/:transactionId
ApproveDeposit(userId, transactionId) ==
    /\ UNCHANGED outsideLedger
    /\ userId \in Authenticated(users)
    /\ IF userId # AdminId
       THEN Reply("approve", 403, Null) /\ UNCHANGED store
       ELSE IF ~(/\ transactionId \in 1..Len(transactions)
                 /\ transactions[transactionId].type = "deposit"
                 /\ transactions[transactionId].status = "pending")
       THEN Reply("approve", 404, Null) /\ UNCHANGED store
       ELSE LET transaction == transactions[transactionId]
                depositAmount == parseFloat(transaction.amount)
            IN IF updateWalletRejected(wallets, transaction.userId, depositAmount)
               THEN Reply("approve", 500, Null) /\ UNCHANGED store
               ELSE /\ Len(transactions) < MaxTx
                    /\ wallets' = updateWalletBalance(wallets, transaction.userId,
                                                      depositAmount)
                    /\ transactions' = createTransaction(transactions,
                                           transaction.userId, depositAmount,
                                           "deposit", "completed", 0, transactionId)
                    /\ Reply("approve", 200, Null)
                    /\ UNCHANGED <<users, gameMatches, playerMatches, timers>>

\* POST /api/wallet/withdraw
Withdraw(userId, amount) ==
    /\ UNCHANGED outsideLedger
    /\ userId \in Authenticated(users)
    /\ LET parsedAmount == parseFloat(amount)
       IN IF getWallet(wallets, userId) = Null
          THEN Reply("withdraw", 404, Null) /\ UNCHANGED store
          ELSE IF NumLe(parsedAmount, 0)
          THEN Reply("withdraw", 400, Null) /\ UNCHANGED store
          ELSE IF NumLt(walletBalanceOf(wallets, userId), parsedAmount)
          THEN Reply("withdraw", 400, Null) /\ UNCHANGED store
          ELSE IF updateWalletRejected(wallets, userId, NumNeg(parsedAmount))
          THEN Reply("withdraw", 500, Null) /\ UNCHANGED store
          ELSE /\ Len(transactions) < MaxTx
               /\ wallets' = updateWalletBalance(wallets, userId, NumNeg(parsedAmount))
               /\ transactions' = createTransaction(transactions, userId,
                                      NumNeg(parsedAmount), "withdrawal",
                                      "completed", 0, Null)
               /\ Reply("withdraw", 201, Null)
               /\ UNCHANGED <<users, gameMatches, playerMatches, timers>>


\* POST /api/matches
CreateMatch(userId, gameId, entryAmount) ==
    /\ UNCHANGED outsideLedger
    /\ userId \in Authenticated(users)
    /\ Len(gameMatches) < MaxMatches
    /\ LET amount == parseFloat(entryAmount)
       IN IF ~gameExists(gameId)
          THEN Reply("create", 404, Null) /\ UNCHANGED store
          ELSE IF NumLt(amount, getGame(gameId).minEntry)
                  \/ NumGt(amount, getGame(gameId).maxEntry)
          THEN Reply("create", 400, Null) /\ UNCHANGED store
          ELSE IF getWallet(wallets, userId) = Null
          THEN Reply("create", 404, Null) /\ UNCHANGED store
          ELSE IF NumLt(walletBalanceOf(wallets, userId), MinPlayRupees * Rupee)
          THEN Reply("create", 400, Null) /\ UNCHANGED store
          ELSE IF NumLt(walletBalanceOf(wallets, userId), amount)
          THEN Reply("create", 400, Null) /\ UNCHANGED store
          ELSE LET matchId == Len(gameMatches) + 1
                   found == getUserByUsername(users, "AI_Player")
                   aiId == IF found = Null THEN Len(users) + 1 ELSE found
               IN /\ found = Null => Len(users) < MaxUsers
                  /\ gameMatches' = createGameMatch(gameMatches, gameId, entryAmount)
                  /\ playerMatches' = addPlayerToMatch(playerMatches, matchId, userId)
                  /\ users' = IF found = Null
                              THEN createUser(users, "AI_Player", Null, 0)
                              ELSE users
                  /\ wallets' = IF found = Null
                                THEN createWallet(wallets, aiId, AiWalletRupees * Rupee)
                                ELSE wallets
                  /\ timers' = setTimeout(timers, "aiJoin", matchId, aiId, <<>>,
                                          AiJoinDelay)
                  /\ Reply("create", 201, matchId)
                  /\ UNCHANGED transactions

\* Node fires a timer when its delay has elapsed; timers of one delay fire
\* in the order they were set
Due(i, kind) ==
    /\ i \in 1..Len(timers)
    /\ timers[i].kind = kind
    /\ timers[i].remaining = 0
    /\ \A j \in 1..(i - 1) : timers[j].kind # kind

clearTimer(ts, i) == SubSeq(ts, 1, i - 1) \o SubSeq(ts, i + 1, Len(ts))

\* create route, setTimeout callback: the practice opponent joins
AiJoinTimer(i) ==
    /\ UNCHANGED outsideLedger
    /\ Due(i, "aiJoin")
    /\ playerMatches' = addPlayerToMatch(playerMatches, timers[i].matchId,
                                         timers[i].aiId)
    /\ timers' = clearTimer(timers, i)
    /\ Reply("aiJoin", 0, timers[i].matchId)
    /\ UNCHANGED <<users, wallets, transactions, gameMatches>>

\* start route: the deduction loop over players[i..], with its early returns
RECURSIVE startDeductions(_, _, _, _, _, _)
startDeductions(players, i, ws, txs, entryAmount, matchId) ==
    IF i > Len(players) THEN [code |-> 200, wallets |-> ws, transactions |-> txs]
    ELSE LET userId == playerMatches[players[i]].userId
         IN IF getWallet(ws, userId) = Null
            THEN [code |-> 400, wallets |-> ws, transactions |-> txs]
            ELSE IF NumLt(walletBalanceOf(ws, userId), entryAmount)
            THEN [code |-> 400, wallets |-> ws, transactions |-> txs]
            ELSE startDeductions(players, i + 1,
                     updateWalletBalance(ws, userId, NumNeg(entryAmount)),
                     createTransaction(txs, userId, NumNeg(entryAmount),
                         "game_entry", "completed", 0, matchId),
                     entryAmount, matchId)

\* POST /api/matches/:id/start
StartMatch(userId, matchId) ==
    /\ UNCHANGED outsideLedger
    /\ userId \in Authenticated(users)
    /\ matchId \in 1..Len(gameMatches)
    /\ LET match == gameMatches[matchId]
           players == getMatchPlayers(playerMatches, matchId)
           entryAmount == parseFloat(match.entryAmount)
           done == startDeductions(players, 1, wallets, transactions,
                                   entryAmount, matchId)
       IN IF match.status # "waiting"
          THEN Reply("start", 400, matchId) /\ UNCHANGED store
          ELSE IF Len(players) < 2
          THEN Reply("start", 400, matchId) /\ UNCHANGED store
          ELSE IF ~(\E i \in 1..Len(players) :
                        playerMatches[players[i]].userId = userId)
          THEN Reply("start", 403, matchId) /\ UNCHANGED store
          ELSE /\ Len(done.transactions) <= MaxTx
               /\ wallets' = done.wallets
               /\ transactions' = done.transactions
               /\ gameMatches' =
                      IF done.code = 200
                      THEN updateGameMatch(gameMatches, matchId,
                               [status |-> "in_progress", startTime |-> TRUE])
                      ELSE gameMatches
               /\ Reply("start", done.code, matchId)
               /\ UNCHANGED <<users, playerMatches, timers>>

\* a guard that lets a started match through
joinRejectsCompletedOnly(match) == match.status = "completed"

\* join route: if (match.status !== "waiting") return 400
joinRejects(match) == match.status # "waiting"

\* POST /api/matches/:id/join
JoinMatch(userId, matchId) ==
    /\ UNCHANGED outsideLedger
    /\ userId \in Authenticated(users)
    /\ matchId \in 1..Len(gameMatches)
    /\ LET match == gameMatches[matchId]
           matchPlayers == getMatchPlayers(playerMatches, matchId)
           entryAmount == parseFloat(match.entryAmount)
           pms == addPlayerToMatch(playerMatches, matchId, userId)
           players == getMatchPlayers(pms, matchId)
           aiPlayer == getUserByUsername(users, "AI_Player")
       IN IF joinRejects(match)
          THEN Reply("join", 400, matchId) /\ UNCHANGED store
          ELSE IF \E i \in 1..Len(matchPlayers) :
                      playerMatches[matchPlayers[i]].userId = userId
          THEN Reply("join", 400, matchId) /\ UNCHANGED store
          ELSE IF getWallet(wallets, userId) = Null
          THEN Reply("join", 404, matchId) /\ UNCHANGED store
          ELSE IF NumLt(walletBalanceOf(wallets, userId), MinPlayRupees * Rupee)
          THEN Reply("join", 400, matchId) /\ UNCHANGED store
          ELSE IF NumLt(walletBalanceOf(wallets, userId), entryAmount)
          THEN Reply("join", 400, matchId) /\ UNCHANGED store
          ELSE /\ playerMatches' = pms
               /\ timers' =
                      IF /\ aiPlayer # Null
                         /\ \E i \in 1..Len(players) : pms[players[i]].userId = aiPlayer
                         /\ Len(players) >= 2
                      THEN setTimeout(timers, "autoStart", matchId, aiPlayer,
                                      players, AutoStartDelay)
                      ELSE timers
               /\ Reply("join", 200, matchId)
               /\ UNCHANGED <<users, wallets, transactions, gameMatches>>

\* join route, first setTimeout callback: the loop debits every player of the
\* snapshot and records a transaction whether or not the debit was applied
RECURSIVE autoStartDeductions(_, _, _, _, _, _)
autoStartDeductions(players, i, ws, txs, entryAmount, matchId) ==
    IF i > Len(players) THEN [wallets |-> ws, transactions |-> txs]
    ELSE LET userId == playerMatches[players[i]].userId
         IN CHOOSE done \in
                {autoStartDeductions(players, i + 1, debited, recorded,
                                     entryAmount, matchId) :
                     debited \in {updateWalletBalance(ws, userId, NumNeg(entryAmount))},
                     recorded \in {createTransaction(txs, userId, NumNeg(entryAmount),
                                       "game_entry", "completed", 0, matchId)}} : TRUE

AutoStartTimer(i) ==
    /\ UNCHANGED outsideLedger
    /\ Due(i, "autoStart")
    /\ LET t == timers[i]
           entryAmount == parseFloat(gameMatches[t.matchId].entryAmount)
           done == autoStartDeductions(t.players, 1, wallets, transactions,
                                       entryAmount, t.matchId)
       IN /\ Len(done.transactions) <= MaxTx
          /\ gameMatches' = updateGameMatch(gameMatches, t.matchId,
                                [status |-> "in_progress", startTime |-> TRUE])
          /\ wallets' = done.wallets
          /\ transactions' = done.transactions
          /\ timers' = setTimeout(clearTimer(timers, i), "autoComplete",
                                  t.matchId, t.aiId, t.players, AutoCompleteDelay)
          /\ Reply("autoStart", 0, t.matchId)
          /\ UNCHANGED <<users, playerMatches>>


\* winnerUser?.subscriptionExpiryDate && new Date(expiry) > new Date()
hasSubscription(us, userId) ==
    /\ userId \in 1..Len(us)
    /\ us[userId].subscriptionExpiryDate # Null
    /\ us[userId].subscriptionExpiryDate > today

\* a find that finds nobody
noHuman(players, i, aiId) == Null

\* players.find(p => p.userId !== aiPlayer.id)?.userId
RECURSIVE firstHuman(_, _, _)
firstHuman(players, i, aiId) ==
    IF i > Len(players) THEN Null
    ELSE IF playerMatches[players[i]].userId # aiId
         THEN playerMatches[players[i]].userId
         ELSE firstHuman(players, i + 1, aiId)

\* for (const player of players) updatePlayerMatchStatus(player.id, won|lost)
RECURSIVE settlePlayers(_, _, _, _)
settlePlayers(pms, players, i, winnerId) ==
    IF i > Len(players) THEN pms
    ELSE settlePlayers(
             updatePlayerMatchStatus(pms, players[i],
                 IF pms[players[i]].userId = winnerId THEN "won" ELSE "lost"),
             players, i + 1, winnerId)

\* join route, second setTimeout callback: completes the match for the first
\* player of the snapshot that is not the practice opponent
AutoCompleteTimer(i) ==
    /\ UNCHANGED outsideLedger
    /\ Due(i, "autoComplete")
    /\ LET t == timers[i]
           match == gameMatches[t.matchId]
           entryAmount == parseFloat(match.entryAmount)
           winnerId == firstHuman(t.players, 1, t.aiId)
           totalPrize == NumMul(entryAmount, Len(t.players))
           commission == calculateCommission(totalPrize,
                             getGame(match.gameId).commissionPercentage,
                             hasSubscription(users, winnerId))
           winnerPrize == NumSub(totalPrize, commission)
       IN /\ timers' = clearTimer(timers, i)
          /\ Reply("autoComplete", 0, t.matchId)
          /\ IF winnerId = Null
             THEN UNCHANGED <<users, wallets, transactions, gameMatches, playerMatches>>
             ELSE /\ Len(transactions) < MaxTx
                  /\ gameMatches' = updateGameMatch(gameMatches, t.matchId,
                                        [status |-> "completed", endTime |-> TRUE,
                                         winnerId |-> winnerId])
                  /\ playerMatches' = settlePlayers(playerMatches, t.players, 1,
                                                    winnerId)
                  /\ wallets' = updateWalletBalance(wallets, winnerId, winnerPrize)
                  /\ transactions' = createTransaction(transactions, winnerId,
                                         winnerPrize, "game_win", "completed",
                                         commission, t.matchId)
                  /\ UNCHANGED users

\* a guard that lets a completed match through
completeRejectsWaitingOnly(match) == match.status = "waiting"

\* complete route: if (match.status !== "in_progress") return 400
completeRejects(match) == match.status # "in_progress"

\* POST /api/matches/:id/complete
CompleteMatch(userId, matchId, winnerId) ==
    /\ UNCHANGED outsideLedger
    /\ userId \in Authenticated(users)
    /\ matchId \in 1..Len(gameMatches)
    /\ LET match == gameMatches[matchId]
           players == getMatchPlayers(playerMatches, matchId)
           entryAmount == parseFloat(match.entryAmount)
           totalPrize == NumMul(entryAmount, Len(players))
           commission == calculateCommission(totalPrize,
                             getGame(match.gameId).commissionPercentage,
                             hasSubscription(users, winnerId))
           winnerPrize == NumSub(totalPrize, commission)
       IN IF completeRejects(match)
          THEN Reply("complete", 400, matchId) /\ UNCHANGED store
          ELSE IF ~gameExists(match.gameId)
          THEN Reply("complete", 404, matchId) /\ UNCHANGED store
          ELSE IF ~(\E i \in 1..Len(players) :
                        playerMatches[players[i]].userId = winnerId)
          THEN Reply("complete", 400, matchId) /\ UNCHANGED store
          ELSE /\ Len(transactions) < MaxTx
               /\ gameMatches' = updateGameMatch(gameMatches, matchId,
                                     [status |-> "completed", endTime |-> TRUE,
                                      winnerId |-> winnerId])
               /\ playerMatches' = settlePlayers(playerMatches, players, 1, winnerId)
               /\ wallets' = updateWalletBalance(wallets, winnerId, winnerPrize)
               /\ transactions' = createTransaction(transactions, winnerId,
                                      winnerPrize, "game_win", "completed",
                                      commission, matchId)
               /\ Reply("complete", 200, matchId)
               /\ UNCHANGED <<users, timers>>

\* POST /api/subscription/purchase: the monthly subscription
PurchaseSubscription(userId) ==
    /\ UNCHANGED outsideStore
    /\ userId \in Authenticated(users)
    /\ UNCHANGED <<subscriptions, subscriptionRewards, today>>
    /\ IF \/ getWallet(wallets, userId) = Null
          \/ NumLt(walletBalanceOf(wallets, userId), SubscriptionPriceRupees * Rupee)
       THEN Reply("purchase", 400, Null) /\ UNCHANGED store
       ELSE /\ Len(transactions) < MaxTx
            /\ wallets' = updateWalletBalance(wallets, userId,
                              NumNeg(SubscriptionPriceRupees * Rupee))
            /\ users' = addSubscription(users, userId, SubscriptionDays, today)
            /\ transactions' = createTransaction(transactions, userId,
                                   NumNeg(SubscriptionPriceRupees * Rupee),
                                   "subscription", "completed", 0, Null)
            /\ Reply("purchase", 200, Null)
            /\ UNCHANGED <<gameMatches, playerMatches, timers>>

\* POST /api/subscriptions: the daily reward of a tier
tierDailyReward(parsedAmount) ==
    IF parsedAmount = StandardTierRupees * Rupee THEN StandardDailyReward * Rupee
    ELSE IF parsedAmount = PremiumTierRupees * Rupee THEN PremiumDailyReward * Rupee
    ELSE BasicDailyReward * Rupee

\* POST /api/subscriptions
Subscribe(userId, amount, rewardAmount, duration) ==
    /\ UNCHANGED outsideStore
    /\ userId \in Authenticated(users)
    /\ LET parsedAmount == parseFloat(amount)
           parsedRewardAmount == parseFloat(rewardAmount)
           parsedDuration == duration
           created == createGameSubscription(subscriptions, subscriptionRewards,
                          userId, amount, rewardAmount, parsedDuration, today)
       IN IF NumLe(parsedAmount, 0) \/ NumLe(parsedRewardAmount, 0)
             \/ parsedDuration <= 0
          THEN Reply("subscribe", 400, Null)
               /\ UNCHANGED <<store, subscriptions, subscriptionRewards>>
          ELSE IF getWallet(wallets, userId) = Null
          THEN Reply("subscribe", 404, Null)
               /\ UNCHANGED <<store, subscriptions, subscriptionRewards>>
          ELSE IF NumLt(walletBalanceOf(wallets, userId), parsedAmount)
          THEN Reply("subscribe", 400, Null)
               /\ UNCHANGED <<store, subscriptions, subscriptionRewards>>
          ELSE /\ Len(transactions) < MaxTx
               /\ Len(subscriptions) < MaxSubscriptions
               /\ wallets' = updateWalletBalance(wallets, userId, NumNeg(parsedAmount))
               /\ transactions' = createTransaction(transactions, userId,
                                      NumNeg(parsedAmount), "subscription_purchase",
                                      "completed", 0, Null)
               /\ subscriptions' = created.subscriptions
               /\ users' = addSubscription(users, userId, parsedDuration, today)
               /\ subscriptionRewards' =
                      createSubscriptionRewards(created.subscriptionRewards,
                          rewardRows(userId, Len(created.subscriptions),
                                     tierDailyReward(parsedAmount), parsedDuration))
               /\ Reply("subscribe", 201, Null)
               /\ UNCHANGED <<gameMatches, playerMatches, timers>>
    /\ UNCHANGED today

\* process-subscription-rewards: the loop over pendingRewards[i..]; ref links
\* the transaction to the reward it pays
RECURSIVE payRewards(_, _, _, _, _)
payRewards(pending, i, ws, txs, rws) ==
    IF i > Len(pending)
    THEN [wallets |-> ws, transactions |-> txs, subscriptionRewards |-> rws]
    ELSE LET reward == rws[pending[i]]
             rewardAmount == parseFloat(reward.amount)
         IN payRewards(pending, i + 1,
                updateWalletBalance(ws, reward.userId, rewardAmount),
                createTransaction(txs, reward.userId, rewardAmount,
                    "subscription_reward", "completed", 0, pending[i]),
                updateRewardStatus(rws, pending[i], "paid"))

\* POST /api/admin/process-subscription-rewards; dateStr = Null: today
ProcessRewards(userId, dateStr) ==
    /\ UNCHANGED outsideStore
    /\ userId \in Authenticated(users)
    /\ UNCHANGED <<users, gameMatches, playerMatches, timers, subscriptions, today>>
    /\ LET date == IF dateStr # Null THEN dateStr ELSE today
           pendingRewards == getPendingRewardsByDate(subscriptions,
                                 subscriptionRewards, date)
           done == payRewards(pendingRewards, 1, wallets, transactions,
                              subscriptionRewards)
       IN IF userId # AdminId
          THEN /\ res' = [op |-> "process", code |-> 403, match |-> Null,
                          date |-> date, processed |-> 0]
               /\ UNCHANGED <<wallets, transactions, subscriptionRewards>>
          ELSE /\ Len(done.transactions) <= MaxTx
               /\ wallets' = done.wallets
               /\ transactions' = done.transactions
               /\ subscriptionRewards' = done.subscriptionRewards
               /\ res' = [op |-> "process", code |-> 200, match |-> Null,
                          date |-> date, processed |-> Len(pendingRewards)]

\* midnight: the next day begins
NextDay ==
    /\ UNCHANGED outsideStore
    /\ today < MaxDay
    /\ today' = today + 1
    /\ Reply("nextDay", 0, Null)
    /\ UNCHANGED <<store, subscriptions, subscriptionRewards>>

\* a call of the client helper
CalculateGame(subscriber) ==
    /\ ~calc.gameDone[subscriber]
    /\ calc' = [calc EXCEPT
           !.game[subscriber] =
               calculateGameCommission(calc.prizePool, calc.commissionPercentage,
                                       subscriber),
           !.gameDone[subscriber] = TRUE]
    /\ Reply("calculateGame", 0, Null)
    /\ UNCHANGED <<store, subscriptions, subscriptionRewards, today, chatLayer,
                   starting>>

\* a call of the server's commission function
CalculateServer(subscriber) ==
    /\ ~calc.serverDone[subscriber]
    /\ calc' = [calc EXCEPT
           !.server[subscriber] =
               calculateCommission(calc.prizePool, calc.commissionPercentage,
                                   subscriber),
           !.serverDone[subscriber] = TRUE]
    /\ Reply("calculateServer", 0, Null)
    /\ UNCHANGED <<store, subscriptions, subscriptionRewards, today, chatLayer,
                   starting>>

\* everything but the Socket.IO layer
outsideChat == <<store, subscriptions, subscriptionRewards, today, calc, starting>>

\* the layer is left as a handler returned it
Handled(c, event, socketId, roomId) ==
    /\ activeUsers' = c.activeUsers
    /\ chatRooms' = c.chatRooms
    /\ messageHistory' = c.messageHistory
    /\ socketRooms' = c.socketRooms
    /\ emitted' = c.emitted
    /\ res' = [op |-> event, code |-> 0, match |-> Null,
               socketId |-> socketId, roomId |-> roomId]
    /\ UNCHANGED outsideChat

\* io.on('connection')
Connect(socketId) ==
    /\ socketId \notin DOMAIN socketRooms
    /\ Handled([chat EXCEPT !.socketRooms = (socketId :> {}) @@ @,
                            !.emitted = <<>>],
               "connection", socketId, NoRoom)
    /\ UNCHANGED accepted

JoinRoom(socketId, userId, roomId) ==
    /\ socketId \in DOMAIN socketRooms
    /\ Handled(joinRoom(chat, socketId, userId, roomId), "joinRoom", socketId, roomId)
    /\ UNCHANGED accepted

LeaveRoom(socketId, userId, roomId) ==
    /\ socketId \in DOMAIN socketRooms
    /\ Handled(leaveRoom(chat, socketId, userId, roomId), "leaveRoom", socketId, roomId)
    /\ UNCHANGED accepted

GetMessageHistory(socketId, roomId) ==
    /\ socketId \in DOMAIN socketRooms
    /\ Handled(getMessageHistory(chat, socketId, roomId),
               "getMessageHistory", socketId, roomId)
    /\ UNCHANGED accepted

SendMessage(socketId, content, sender, roomId) ==
    /\ socketId \in DOMAIN socketRooms
    /\ Len(accepted) < MaxSends
    /\ Handled(sendMessage(chat, Len(accepted) + 1, content, sender, roomId),
               "sendMessage", socketId, roomId)
    /\ accepted' = IF content = NoRoom \/ roomId = NoRoom THEN accepted
                   ELSE Append(accepted, [id |-> Len(accepted) + 1, sender |-> sender,
                                          content |-> content, roomId |-> roomId])

CreatePrivateRoom(socketId, userId, otherUserId, roomId) ==
    /\ socketId \in DOMAIN socketRooms
    /\ Handled(createPrivateRoom(chat, socketId, userId, otherUserId, roomId),
               "createPrivateRoom", socketId, roomId)
    /\ UNCHANGED accepted

Disconnect(socketId) ==
    /\ socketId \in DOMAIN socketRooms
    /\ Handled(disconnect(chat, socketId), "disconnect", socketId, NoRoom)
    /\ UNCHANGED accepted

\* the global room exists from the start
InitChat ==
    /\ activeUsers = <<>>
    /\ chatRooms = ("global" :> [type |-> "global", participants |-> <<>>])
    /\ messageHistory = ("global" :> <<>>)
    /\ socketRooms = <<>>
    /\ emitted = <<>>
    /\ accepted = <<>>

\* ------------------------------------------- start, one await at a time
\* The start route under the scheduling model in which another handler may
\* run at each "await storage.x(...)": a request is a record in starting, pc
\* names the storage call it is waiting for, and match, players, hasWallet
\* and walletBalance are the values that call returned.

\* a game_entry record that is never written
recordEntryFeeLost(txs, userId, entryAmount, matchId) == txs

\* start route: createTransaction({type: "game_entry", ...})
recordEntryFee(txs, userId, entryAmount, matchId) ==
    createTransaction(txs, userId, NumNeg(entryAmount), "game_entry",
                      "completed", 0, matchId)

\* the request is answered
answered(r, code) ==
    /\ starting' = [starting EXCEPT ![r].pc = "done", ![r].code = code]
    /\ Reply("start", code, starting[r].matchId)

\* the request calls storage.getWallet for its i-th player and waits
awaitWallet(r, players, i) ==
    LET userId == playerMatches[players[i]].userId
    IN /\ starting' = [starting EXCEPT
              ![r].pc = "getWallet", ![r].players = players, ![r].i = i,
              ![r].hasWallet = getWallet(wallets, userId) # Null,
              ![r].walletBalance = walletBalanceOf(wallets, userId)]
       /\ Reply("starting", 0, starting[r].matchId)

\* POST /api/matches/:id/start arrives: up to "await storage.getGameMatch"
StartReceived(userId, matchId) ==
    /\ userId \in Authenticated(users)
    /\ matchId \in 1..Len(gameMatches)
    /\ Len(starting) < MaxStarts
    /\ starting' = Append(starting,
           [userId |-> userId, matchId |-> matchId, pc |-> "getGameMatch",
            match |-> gameMatches[matchId], players |-> <<>>, i |-> 0,
            hasWallet |-> FALSE, walletBalance |-> 0, code |-> 0])
    /\ Reply("starting", 0, matchId)
    /\ UNCHANGED <<store, subscriptions, subscriptionRewards, today, calc, chatLayer>>

\* the handler of request r resumes and runs up to its next await
StartResumed(r) ==
    /\ r \in 1..Len(starting)
    /\ LET s == starting[r]
           entryAmount == parseFloat(s.match.entryAmount)
           userId == playerMatches[s.players[s.i]].userId
       IN \/ /\ s.pc = "getGameMatch"
             /\ IF s.match.status # "waiting"
                THEN answered(r, 400)
                ELSE /\ starting' = [starting EXCEPT
                            ![r].pc = "getMatchPlayers",
                            ![r].players = getMatchPlayers(playerMatches, s.matchId)]
                     /\ Reply("starting", 0, s.matchId)
             /\ UNCHANGED store
          \/ /\ s.pc = "getMatchPlayers"
             /\ IF Len(s.players) < 2
                THEN answered(r, 400)
                ELSE IF ~(\E i \in 1..Len(s.players) :
                              playerMatches[s.players[i]].userId = s.userId)
                THEN answered(r, 403)
                ELSE awaitWallet(r, s.players, 1)
             /\ UNCHANGED store
          \/ /\ s.pc = "getWallet"
             /\ IF ~s.hasWallet \/ NumLt(s.walletBalance, entryAmount)
                THEN answered(r, 400) /\ UNCHANGED store
                ELSE /\ wallets' = updateWalletBalance(wallets, userId,
                                                       NumNeg(entryAmount))
                     /\ starting' = [starting EXCEPT ![r].pc = "updateWalletBalance"]
                     /\ Reply("starting", 0, s.matchId)
                     /\ UNCHANGED <<users, transactions, gameMatches,
                                    playerMatches, timers>>
          \/ /\ s.pc = "updateWalletBalance"
             /\ Len(transactions) < MaxTx
             /\ transactions' = recordEntryFee(transactions, userId, entryAmount,
                                               s.matchId)
             /\ starting' = [starting EXCEPT ![r].pc = "createTransaction"]
             /\ Reply("starting", 0, s.matchId)
             /\ UNCHANGED <<users, wallets, gameMatches, playerMatches, timers>>
          \/ /\ s.pc = "createTransaction"
             /\ IF s.i < Len(s.players)
                THEN awaitWallet(r, s.players, s.i + 1) /\ UNCHANGED store
                ELSE /\ gameMatches' = updateGameMatch(gameMatches, s.matchId,
                                           [status |-> "in_progress",
                                            startTime |-> TRUE])
                     /\ answered(r, 200)
                     /\ UNCHANGED <<users, wallets, transactions, playerMatches,
                                    timers>>
    /\ UNCHANGED <<subscriptions, subscriptionRewards, today, calc, chatLayer>>

\* one second passes; no timer is overdue
Tick ==
    /\ UNCHANGED outsideLedger
    /\ Len(timers) > 0
    /\ \A i \in 1..Len(timers) : timers[i].remaining > 0
    /\ timers' = [i \in 1..Len(timers) |->
                     [timers[i] EXCEPT !.remaining = @ - 1]]
    /\ Reply("tick", 0, Null)
    /\ UNCHANGED <<users, wallets, transactions, gameMatches, playerMatches>>

\* no call of a commission function under way
CalcIdle ==
    [prizePool |-> 0, commissionPercentage |-> 0,
     game |-> [b \in BOOLEAN |-> 0], gameDone |-> [b \in BOOLEAN |-> TRUE],
     server |-> [b \in BOOLEAN |-> 0], serverDone |-> [b \in BOOLEAN |-> TRUE]]

Init ==
    /\ users = <<>>
    /\ wallets = <<>>
    /\ transactions = <<>>
    /\ gameMatches = <<>>
    /\ playerMatches = <<>>
    /\ timers = <<>>
    /\ res = [op |-> "init", code |-> 0, match |-> Null]
    /\ subscriptions = <<>>
    /\ subscriptionRewards = <<>>
    /\ today = 1
    /\ calc = CalcIdle
    /\ InitChat
    /\ starting = <<>>

\* ------------------------------------------------------- environments
\* The clients of a specification: which requests arrive, and when.  Every
\* behaviour of a specification below is a behaviour of the server.

Accepted == res'.code < 400
SetupPhase == Len(gameMatches) = 0

hasDepositRequest(userId) ==
    \E t \in 1..Len(transactions) :
        transactions[t].type = "deposit" /\ transactions[t].userId = userId

isApproved(transactionId) ==
    \E t \in 1..Len(transactions) :
        /\ transactions[t].type = "deposit"
        /\ transactions[t].status = "completed"
        /\ transactions[t].ref = transactionId

\* Spec: well-formed clients.  Users register under ordinary names, ask for
\* one deposit each and the admin approves each request once, all before the
\* first match is created; amounts are numerals.  Requests the server would
\* turn down are sent to the start and complete routes only.
Next ==
    \/ SetupPhase /\ Register("other", Null)
    \/ \E userId \in 1..MaxUsers, amount \in DepositInputs :
           /\ SetupPhase
           /\ ~hasDepositRequest(userId)
           /\ Deposit(userId, amount)
           /\ Accepted
    \/ \E transactionId \in 1..MaxTx :
           /\ SetupPhase
           /\ ~isApproved(transactionId)
           /\ ApproveDeposit(AdminId, transactionId)
           /\ Accepted
    \/ \E userId \in 1..MaxUsers, amount \in WithdrawInputs \ {BadInput} :
           Withdraw(userId, amount) /\ Accepted
    \/ \E userId \in 1..MaxUsers, entryAmount \in EntryInputs :
           CreateMatch(userId, 1, entryAmount) /\ Accepted
    \/ \E userId \in 1..MaxUsers, matchId \in 1..MaxMatches :
           JoinMatch(userId, matchId) /\ Accepted
    \/ \E userId \in 1..MaxUsers, matchId \in 1..MaxMatches : StartMatch(userId, matchId)
    \/ \E userId \in 1..MaxUsers, matchId \in 1..MaxMatches, winnerId \in 1..MaxUsers :
           CompleteMatch(userId, matchId, winnerId)
    \/ \E i \in 1..(MaxUsers + MaxMatches) : AiJoinTimer(i)
    \/ \E i \in 1..(MaxUsers + MaxMatches) : AutoStartTimer(i)
    \/ \E i \in 1..(MaxUsers + MaxMatches) : AutoCompleteTimer(i)
    \/ Tick

Spec == Init /\ [][Next]_vars

\* SpecFair: two funded users, one creates a match and the other joins it,
\* either may start and complete it by hand; Node's timers run: time passes,
\* and a timer whose delay has elapsed fires.
NextFair ==
    \/ Len(users) < MaxUsers - 1 /\ Register("other", Null)
    \/ \E userId \in 1..MaxUsers, amount \in DepositInputs :
           /\ SetupPhase
           /\ ~hasDepositRequest(userId)
           /\ Deposit(userId, amount)
           /\ Accepted
    \/ \E transactionId \in 1..MaxTx :
           /\ SetupPhase
           /\ ~isApproved(transactionId)
           /\ ApproveDeposit(AdminId, transactionId)
           /\ Accepted
    \/ \E entryAmount \in EntryInputs :
           CreateMatch(AdminId, 1, entryAmount) /\ Accepted
    \/ \E userId \in 1..MaxUsers, matchId \in 1..MaxMatches :
           JoinMatch(userId, matchId) /\ Accepted
    \/ \E userId \in 1..MaxUsers, matchId \in 1..MaxMatches :
           StartMatch(userId, matchId) /\ Accepted
    \/ \E userId \in 1..MaxUsers, matchId \in 1..MaxMatches, winnerId \in 1..MaxUsers :
           CompleteMatch(userId, matchId, winnerId) /\ Accepted
    \/ \E i \in 1..(MaxUsers + MaxMatches) : AiJoinTimer(i)
    \/ \E i \in 1..(MaxUsers + MaxMatches) : AutoStartTimer(i)
    \/ \E i \in 1..(MaxUsers + MaxMatches) : AutoCompleteTimer(i)
    \/ Tick

TimerFairness ==
    /\ WF_vars(Tick)
    /\ WF_vars(\E i \in 1..(MaxUsers + MaxMatches) : AiJoinTimer(i))
    /\ WF_vars(\E i \in 1..(MaxUsers + MaxMatches) : AutoStartTimer(i))
    /\ WF_vars(\E i \in 1..(MaxUsers + MaxMatches) : AutoCompleteTimer(i))

SpecFair == Init /\ [][NextFair]_vars /\ TimerFairness

\* SpecNamesake: two clients and no withdrawals; a client may register under
\* the username the create route looks the practice opponent up by.
NextNamesake ==
    \/ \E username \in UsernameInputs :
           /\ SetupPhase
           /\ Len(users) < MaxUsers - 1
           /\ Register(username, Null)
           /\ Accepted
    \/ \E userId \in 1..MaxUsers, amount \in DepositInputs :
           /\ SetupPhase
           /\ ~hasDepositRequest(userId)
           /\ Deposit(userId, amount)
           /\ Accepted
    \/ \E transactionId \in 1..MaxTx :
           /\ SetupPhase
           /\ ~isApproved(transactionId)
           /\ ApproveDeposit(AdminId, transactionId)
           /\ Accepted
    \/ \E userId \in 1..MaxUsers, entryAmount \in EntryInputs :
           CreateMatch(userId, 1, entryAmount) /\ Accepted
    \/ \E userId \in 1..MaxUsers, matchId \in 1..MaxMatches :
           JoinMatch(userId, matchId) /\ Accepted
    \/ \E userId \in 1..MaxUsers, matchId \in 1..MaxMatches : StartMatch(userId, matchId)
    \/ \E userId \in 1..MaxUsers, matchId \in 1..MaxMatches, winnerId \in 1..MaxUsers :
           CompleteMatch(userId, matchId, winnerId)
    \/ \E i \in 1..(MaxUsers + MaxMatches) : AiJoinTimer(i)
    \/ \E i \in 1..(MaxUsers + MaxMatches) : AutoStartTimer(i)
    \/ \E i \in 1..(MaxUsers + MaxMatches) : AutoCompleteTimer(i)
    \/ Tick

SpecNamesake == Init /\ [][NextNamesake]_vars

\* SpecPlay: two clients who each deposit 800 and may buy the monthly
\* subscription before the first match; entry fees of 200 and 201; join,
\* start and complete requests arrive whether or not the server accepts them.
PlayDepositInputs == {800 * Rupee}
PlayEntryInputs == {200 * Rupee, 201 * Rupee}

NextPlay ==
    \/ /\ SetupPhase
       /\ Len(users) < MaxUsers - 1
       /\ Register("other", Null)
    \/ \E userId \in 1..MaxUsers, amount \in PlayDepositInputs :
           /\ SetupPhase
           /\ ~hasDepositRequest(userId)
           /\ Deposit(userId, amount)
           /\ Accepted
    \/ \E transactionId \in 1..MaxTx :
           /\ SetupPhase
           /\ ~isApproved(transactionId)
           /\ ApproveDeposit(AdminId, transactionId)
           /\ Accepted
    \/ \E userId \in 1..MaxUsers :
           /\ SetupPhase
           /\ ~hasSubscription(users, userId)
           /\ PurchaseSubscription(userId)
           /\ Accepted
    \/ \E userId \in 1..MaxUsers, entryAmount \in PlayEntryInputs :
           CreateMatch(userId, 1, entryAmount) /\ Accepted
    \/ \E userId \in 1..MaxUsers, matchId \in 1..MaxMatches : JoinMatch(userId, matchId)
    \/ \E userId \in 1..MaxUsers, matchId \in 1..MaxMatches : StartMatch(userId, matchId)
    \/ \E userId \in 1..MaxUsers, matchId \in 1..MaxMatches, winnerId \in 1..MaxUsers :
           CompleteMatch(userId, matchId, winnerId)
    \/ \E i \in 1..(MaxUsers + MaxMatches) : AiJoinTimer(i)
    \/ \E i \in 1..(MaxUsers + MaxMatches) : AutoStartTimer(i)
    \/ \E i \in 1..(MaxUsers + MaxMatches) : AutoCompleteTimer(i)
    \/ Tick

SpecPlay == Init /\ [][NextPlay]_vars

\* SpecRewards: one client, the admin, who deposits 2000, buys reward
\* subscriptions of one or two days and runs the reward batch for any day,
\* any number of times.
RewardDepositInputs == {2000 * Rupee}
SubscriptionAmountInputs == {1000 * Rupee, 2000 * Rupee}
RewardAmountInputs == {100 * Rupee}

NextRewards ==
    \/ /\ Len(users) < MaxUsers - 2
       /\ Register("other", Null)
    \/ \E userId \in 1..MaxUsers, amount \in RewardDepositInputs :
           /\ ~hasDepositRequest(userId)
           /\ Deposit(userId, amount)
           /\ Accepted
    \/ \E transactionId \in 1..MaxTx :
           /\ ~isApproved(transactionId)
           /\ ApproveDeposit(AdminId, transactionId)
           /\ Accepted
    \/ \E userId \in 1..MaxUsers, amount \in SubscriptionAmountInputs,
          rewardAmount \in RewardAmountInputs, duration \in 1..MaxDuration :
           Subscribe(userId, amount, rewardAmount, duration) /\ Accepted
    \/ \E dateStr \in 0..MaxDay : ProcessRewards(AdminId, dateStr)
    \/ NextDay

SpecRewards == Init /\ [][NextRewards]_vars

\* SpecCommission: the two commission functions applied, with and without
\* the subscriber discount, to one prize pool (whole rupees) and percentage.
PrizePoolInputs == ((0 - 1)..MaxPool) \cup {600, 603}
PercentageInputs == {0, 5, 10, 15}

InitCommission ==
    /\ users = <<>>
    /\ wallets = <<>>
    /\ transactions = <<>>
    /\ gameMatches = <<>>
    /\ playerMatches = <<>>
    /\ timers = <<>>
    /\ res = [op |-> "init", code |-> 0, match |-> Null]
    /\ subscriptions = <<>>
    /\ subscriptionRewards = <<>>
    /\ today = 1
    /\ InitChat
    /\ starting = <<>>
    /\ \E prizePool \in PrizePoolInputs, commissionPercentage \in PercentageInputs :
           calc = [prizePool |-> prizePool * Rupee,
                   commissionPercentage |-> commissionPercentage,
                   game |-> [b \in BOOLEAN |-> 0],
                   gameDone |-> [b \in BOOLEAN |-> FALSE],
                   server |-> [b \in BOOLEAN |-> 0],
                   serverDone |-> [b \in BOOLEAN |-> FALSE]]

NextCommission ==
    \/ \E subscriber \in BOOLEAN : CalculateGame(subscriber)
    \/ \E subscriber \in BOOLEAN : CalculateServer(subscriber)

SpecCommission == InitCommission /\ [][NextCommission]_vars

\* SpecHistory: one connection that joins rooms, sends and asks for the
\* history.  Long runs of sends go to the global room.
HistoryRoomInputs == {"global"} \cup GameRoomInputs
ContentInputs == {"hi", NoRoom}

NextHistory ==
    \/ Connect(1)
    \/ \E roomId \in HistoryRoomInputs : JoinRoom(1, 1, roomId)
    \/ \E roomId \in HistoryRoomInputs, content \in ContentInputs :
           /\ roomId \in GameRoomInputs => Len(accepted) < MaxGameSends
           /\ SendMessage(1, content, 1, roomId)
    \/ \E roomId \in HistoryRoomInputs : GetMessageHistory(1, roomId)

SpecHistory == Init /\ [][NextHistory]_vars

\* SpecPresence: connections, each of its own user, that come, go, and join
\* and leave rooms.
Sockets == 1..MaxSockets

NextPresence ==
    \/ \E socketId \in Sockets : Connect(socketId)
    \/ \E socketId \in Sockets, roomId \in RoomIds \cup {NoRoom} :
           JoinRoom(socketId, socketId, roomId)
    \/ \E socketId \in Sockets, roomId \in RoomIds \cup {NoRoom} :
           LeaveRoom(socketId, socketId, roomId)
    \/ \E socketId \in Sockets, otherUserId \in Sockets, roomId \in PrivateRoomInputs :
           /\ otherUserId # socketId
           /\ CreatePrivateRoom(socketId, socketId, otherUserId, roomId)
    \/ \E socketId \in Sockets : Disconnect(socketId)

SpecPresence == Init /\ [][NextPresence]_vars

\* SpecRace: one funded user creates a match, the practice opponent joins,
\* and, once no timer is pending, the user sends start requests whose
\* handlers interleave at their awaits.
NextRace ==
    \/ Len(users) < MaxUsers - 2 /\ Register("other", Null)
    \/ \E amount \in DepositInputs :
           /\ SetupPhase
           /\ ~hasDepositRequest(AdminId)
           /\ Deposit(AdminId, amount)
           /\ Accepted
    \/ \E transactionId \in 1..MaxTx :
           /\ SetupPhase
           /\ ~isApproved(transactionId)
           /\ ApproveDeposit(AdminId, transactionId)
           /\ Accepted
    \/ \E entryAmount \in EntryInputs :
           CreateMatch(AdminId, 1, entryAmount) /\ Accepted
    \/ \E i \in 1..(MaxUsers + MaxMatches) : AiJoinTimer(i)
    \/ Tick
    \/ \E matchId \in 1..MaxMatches :
           timers = <<>> /\ StartReceived(AdminId, matchId)
    \/ \E r \in 1..MaxStarts : StartResumed(r)

SpecRace == Init /\ [][NextRace]_vars

\* SpecLedger: the wallet routes alone, with any client: referrals, requests
\* the server turns down, and amounts that are no numeral.  The clients stop
\* after MaxLedgerTx transactions.
NextLedger ==
    \/ \E username \in UsernameInputs, referralCode \in 0..MaxUsers :
           Register(username, referralCode)
    \/ \E userId \in 1..MaxUsers, amount \in DepositInputs \cup {BadInput} :
           Len(transactions) < MaxLedgerTx /\ Deposit(userId, amount)
    \/ \E userId \in 1..MaxUsers, transactionId \in 1..MaxLedgerTx :
           Len(transactions) < MaxLedgerTx /\ ApproveDeposit(userId, transactionId)
    \/ \E userId \in 1..MaxUsers, amount \in WithdrawInputs :
           Len(transactions) < MaxLedgerTx /\ Withdraw(userId, amount)

SpecLedger == Init /\ [][NextLedger]_vars


\* ------------------------------------------------------------- claims
Matches == 1..Len(gameMatches)
UserIds == 1..Len(users)

\* the users holding a PlayerMatch row of a match
PlayersOf(matchId) ==
    {playerMatches[p].userId :
        p \in {q \in 1..Len(playerMatches) : playerMatches[q].matchId = matchId}}

\* the wallet opened by the create route for the practice opponent starts at
\* 10000 rupees, every other wallet at 0
InitialBalance(userId) ==
    IF users[userId].username = "AI_Player" /\ ~users[userId].referralCode
    THEN AiWalletRupees * Rupee ELSE 0

RECURSIVE SumCompleted(_, _)
SumCompleted(userId, n) ==
    IF n = 0 THEN 0
    ELSE NumAdd(SumCompleted(userId, n - 1),
                IF transactions[n].userId = userId
                   /\ transactions[n].status = "completed"
                THEN parseFloat(transactions[n].amount) ELSE 0)

EntryFees(matchId, userId) ==
    {t \in 1..Len(transactions) :
        /\ transactions[t].type = "game_entry"
        /\ transactions[t].ref = matchId
        /\ transactions[t].userId = userId}

Payouts(matchId) ==
    {t \in 1..Len(transactions) :
        transactions[t].type = "game_win" /\ transactions[t].ref = matchId}

StatusRank(status) ==
    IF status = "waiting" THEN 0 ELSE IF status = "in_progress" THEN 1 ELSE 2

\* C1: every wallet balance is a number that is at least 0, after every
\* operation.
C1_BalanceNonNegative ==
    \A w \in 1..Len(wallets) : NumLe(0, parseFloat(wallets[w].balance))

\* C2: at every operation boundary each wallet balance equals its initial
\* balance plus the sum of the user's completed transaction amounts.
C2_Reconciliation ==
    \A userId \in UserIds :
        walletBalanceOf(wallets, userId) =
            NumAdd(InitialBalance(userId), SumCompleted(userId, Len(transactions)))

\* C3: over the life of a match no player is charged more than one game_entry
\* fee for it.
C3_EntryFeeOnce ==
    \A matchId \in Matches : \A userId \in PlayersOf(matchId) :
        Cardinality(EntryFees(matchId, userId)) <= 1

\* C4: a match pays its winner at most once: at most one game_win
\* transaction is recorded for it.
C4_NoDoubleComplete ==
    \A matchId \in Matches : Cardinality(Payouts(matchId)) <= 1

\* C5: a complete request for a match that is already completed is answered
\* 400 and changes no wallet, transaction, PlayerMatch row or match field.
C5_CompleteOnCompletedRejected ==
    [][\A matchId \in Matches :
          (/\ res'.op = "complete"
           /\ res'.match = matchId
           /\ gameMatches[matchId].status = "completed")
          => /\ res'.code = 400
             /\ UNCHANGED <<wallets, transactions, playerMatches, gameMatches>>]_vars

C5_RejectedOnCompleted ==
    /\ res.op = "complete"
    /\ res.code = 400
    /\ res.match \in Matches
    /\ gameMatches[res.match].status = "completed"

\* C6: a match's status only ever moves waiting -> in_progress -> completed.
C6_OneDirectional ==
    [][\A matchId \in Matches :
          StatusRank(gameMatches'[matchId].status)
              >= StatusRank(gameMatches[matchId].status)]_vars

\* C7: winnerId is null until the match is completed, is set by the step that
\* completes it and never changes afterwards.
C7_WinnerSetOnce ==
    [][\A matchId \in Matches :
          /\ gameMatches[matchId].winnerId # Null
                => gameMatches'[matchId].winnerId = gameMatches[matchId].winnerId
          /\ gameMatches'[matchId].status # "completed"
                => gameMatches'[matchId].winnerId = Null
          /\ gameMatches'[matchId].status = "completed"
                => gameMatches'[matchId].winnerId # Null]_vars

\* C8: a start request answered with success, on a match with N PlayerMatch
\* rows, lowers the balance of each player of the match by exactly
\* entryAmount, changes no other wallet, appends exactly N transactions, one
\* per player (game_entry, -entryAmount, commission 0, completed), and leaves
\* the match in_progress.
C8_StartChargesEachPlayerOnce ==
    [][\A matchId \in Matches :
          (res'.op = "start" /\ res'.code = 200 /\ res'.match = matchId)
          => LET N == Len(getMatchPlayers(playerMatches, matchId))
                 entryAmount == parseFloat(gameMatches[matchId].entryAmount)
                 added == (Len(transactions) + 1)..Len(transactions')
             IN /\ N >= 2
                /\ \A userId \in PlayersOf(matchId) :
                       walletBalanceOf(wallets', userId) =
                           NumSub(walletBalanceOf(wallets, userId), entryAmount)
                /\ \A userId \in UserIds \ PlayersOf(matchId) :
                       walletBalanceOf(wallets', userId) =
                           walletBalanceOf(wallets, userId)
                /\ Len(transactions') = Len(transactions) + N
                /\ \A userId \in PlayersOf(matchId) :
                       Cardinality({t \in added :
                           transactions'[t] =
                               [userId |-> userId,
                                amount |-> NumNeg(entryAmount),
                                type |-> "game_entry",
                                status |-> "completed",
                                commissionAmount |-> 0,
                                ref |-> matchId]}) = 1
                /\ gameMatches'[matchId].status = "in_progress"]_vars

\* C9: a start request that is turned down has charged nobody, recorded no
\* transaction and left the match as it was.
C9_StartAllOrNothing ==
    [][(res'.op = "start" /\ res'.code # 200)
          => UNCHANGED <<wallets, transactions, gameMatches>>]_vars

\* C10: the step that makes a match in_progress has deducted entryAmount from
\* every player holding a PlayerMatch row of the match at that moment.
C10_InProgressAfterDeductions ==
    [][\A matchId \in Matches :
          (/\ gameMatches[matchId].status # "in_progress"
           /\ gameMatches'[matchId].status = "in_progress")
          => \A userId \in PlayersOf(matchId) :
                 walletBalanceOf(wallets', userId) =
                     NumSub(walletBalanceOf(wallets, userId),
                            parseFloat(gameMatches[matchId].entryAmount))]_vars

\* C11: a complete request answered with success, on a match with N
\* PlayerMatch rows, entry amount E and game percentage p, credits the winner
\* with E * N minus the commission of section 4.2 (p, or p * 0.75 for a
\* subscriber, of the pool, rounded half-up to cents), records that payout
\* as one game_win transaction carrying the commission, and changes no other
\* wallet.
C11_CompletePaysWinner ==
    [][\A matchId \in Matches :
          (res'.op = "complete" /\ res'.code = 200 /\ res'.match = matchId)
          => LET N == Len(getMatchPlayers(playerMatches, matchId))
                 E == parseFloat(gameMatches[matchId].entryAmount)
                 p == games[gameMatches[matchId].gameId].commissionPercentage
                 winnerId == gameMatches'[matchId].winnerId
                 prizePool == E * N
                 cents == Rupee \div 100
                 quarterPoints == IF users[winnerId].subscriptionExpiryDate > today
                                  THEN 3 * p ELSE 4 * p
                 \* prizePool * quarterPoints / 400, half-up on the cent
                 commission ==
                     ((2 * prizePool * quarterPoints + 400 * cents)
                         \div (800 * cents)) * cents
                 payout == prizePool - commission
             IN /\ walletBalanceOf(wallets', winnerId) =
                       walletBalanceOf(wallets, winnerId) + payout
                /\ \A userId \in UserIds \ {winnerId} :
                       walletBalanceOf(wallets', userId) =
                           walletBalanceOf(wallets, userId)
                /\ transactions' = Append(transactions,
                       [userId |-> winnerId, amount |-> payout,
                        type |-> "game_win", status |-> "completed",
                        commissionAmount |-> commission, ref |-> matchId])]_vars

\* C12: a join request for a match that is not waiting is answered 400, adds
\* no PlayerMatch row, schedules no timer and changes no wallet or
\* transaction.
C12_JoinNotWaitingRejected ==
    [][\A matchId \in Matches :
          (/\ res'.op = "join"
           /\ res'.match = matchId
           /\ gameMatches[matchId].status # "waiting")
          => /\ res'.code = 400
             /\ UNCHANGED <<playerMatches, timers, wallets, transactions>>]_vars

C12_JoinTurnedDownAfterStart ==
    /\ res.op = "join"
    /\ res.code = 400
    /\ res.match \in Matches
    /\ gameMatches[res.match].status = "in_progress"

\* C13: every match holds at most one PlayerMatch row per user.
C13_OneRowPerUser ==
    \A matchId \in Matches :
        \A p, q \in 1..Len(playerMatches) :
            (/\ playerMatches[p].matchId = matchId
             /\ playerMatches[q].matchId = matchId
             /\ playerMatches[p].userId = playerMatches[q].userId)
            => p = q

\* C14: a subscription purchase answered with success, of duration d, leaves
\* exactly d SubscriptionReward rows for the new subscription, all pending,
\* with each day 1..d appearing once.
C14_OneRewardPerDay ==
    [][(res'.op = "subscribe" /\ res'.code = 201)
          => LET id == Len(subscriptions')
                 d == subscriptions'[id].duration
                 rows == {r \in 1..Len(subscriptionRewards') :
                             subscriptionRewards'[r].subscriptionId = id}
             IN /\ Cardinality(rows) = d
                /\ \A r \in rows : subscriptionRewards'[r].status = "pending"
                /\ \A day \in 1..d :
                       Cardinality({r \in rows :
                           subscriptionRewards'[r].day = day}) = 1]_vars

\* the amounts of the rewards of userId among the first n that this step pays
RECURSIVE SumNewlyPaid(_, _)
SumNewlyPaid(userId, n) ==
    IF n = 0 THEN 0
    ELSE SumNewlyPaid(userId, n - 1) +
         (IF /\ subscriptionRewards[n].userId = userId
             /\ subscriptionRewards[n].status = "pending"
             /\ subscriptionRewards'[n].status = "paid"
          THEN subscriptionRewards[n].amount ELSE 0)

\* C15: reward processing pays each reward once.  A paid reward is never
\* touched again; after every step a reward has one subscription_reward
\* transaction if it is paid and none otherwise; and a batch run credits each
\* user exactly the rewards it moves from pending to paid, so a second run
\* for the same date changes no wallet and creates no transaction.
C15_RewardPaidOnce ==
    [][/\ \A r \in 1..Len(subscriptionRewards) :
             subscriptionRewards[r].status = "paid"
                 => subscriptionRewards'[r] = subscriptionRewards[r]
       /\ \A r \in 1..Len(subscriptionRewards') :
             Cardinality({t \in 1..Len(transactions') :
                 /\ transactions'[t].type = "subscription_reward"
                 /\ transactions'[t].ref = r}) =
             IF subscriptionRewards'[r].status = "paid" THEN 1 ELSE 0
       /\ res'.op = "process" =>
             /\ \A userId \in UserIds :
                    walletBalanceOf(wallets', userId) =
                        walletBalanceOf(wallets, userId) +
                            SumNewlyPaid(userId, Len(subscriptionRewards))
             /\ (subscriptionRewards' = subscriptionRewards
                    => transactions' = transactions)]_vars

C15_SecondRunPaysNothing ==
    /\ res.op = "process"
    /\ res.code = 200
    /\ res.processed = 0
    /\ \E r \in 1..Len(subscriptionRewards) :
           /\ subscriptionRewards[r].status = "paid"
           /\ rewardDate(subscriptions, subscriptionRewards[r]) = res.date

\* C16: both commission functions return 0 when the pool or the percentage
\* is not positive, and otherwise the pool times the (discounted) percentage
\* over 100, rounded half-up to cents; so the two agree on every input.
C16_CommissionRoundedHalfUp ==
    \A b \in BOOLEAN :
        LET cent == Rupee \div 100
            quarterPoints == IF b THEN 3 * calc.commissionPercentage
                             ELSE 4 * calc.commissionPercentage
            expected ==
                IF calc.prizePool <= 0 \/ calc.commissionPercentage <= 0 THEN 0
                ELSE ((2 * calc.prizePool * quarterPoints + 400 * cent)
                         \div (800 * cent)) * cent
        IN /\ (calc.gameDone[b] /\ calc # CalcIdle) => calc.game[b] = expected
           /\ (calc.serverDone[b] /\ calc # CalcIdle) => calc.server[b] = expected

\* C17: for a positive pool and percentage the discounted commission is
\* within one cent of 0.75 times the commission without discount, and never
\* larger than it; for the client helper and for the server's function.
C17_DiscountIsThreeQuarters ==
    LET cent == Rupee \div 100
        near(disc, full) ==
            /\ 4 * disc - 3 * full <= 4 * cent
            /\ 3 * full - 4 * disc <= 4 * cent
            /\ disc <= full
    IN (calc.prizePool > 0 /\ calc.commissionPercentage > 0)
       => /\ (calc.gameDone[TRUE] /\ calc.gameDone[FALSE])
                => near(calc.game[TRUE], calc.game[FALSE])
          /\ (calc.serverDone[TRUE] /\ calc.serverDone[FALSE])
                => near(calc.server[TRUE], calc.server[FALSE])

C17_DiscountRounded ==
    /\ calc.prizePool > 0
    /\ calc.commissionPercentage > 0
    /\ calc.gameDone[TRUE] /\ calc.gameDone[FALSE]
    /\ calc.serverDone[TRUE] /\ calc.serverDone[FALSE]
    /\ calc.game[FALSE] > 0
    /\ 4 * calc.game[TRUE] # 3 * calc.game[FALSE]

\* C18: an approval answered with success names a pending deposit
\* transaction T, credits the wallet of T's owner by exactly T's amount,
\* changes no other wallet and leaves T completed, no longer a pending
\* deposit; a deposit request changes no wallet balance.
C18_ApproveCreditsOwnerAndCompletes ==
    [][/\ (res'.op = "approve" /\ res'.code = 200)
           => \E T \in 1..Len(transactions) :
                 /\ transactions[T].type = "deposit"
                 /\ transactions[T].status = "pending"
                 /\ walletBalanceOf(wallets', transactions[T].userId) =
                        walletBalanceOf(wallets, transactions[T].userId)
                            + parseFloat(transactions[T].amount)
                 /\ \A userId \in UserIds \ {transactions[T].userId} :
                        walletBalanceOf(wallets', userId) =
                            walletBalanceOf(wallets, userId)
                 /\ transactions'[T].status = "completed"
       /\ (res'.op = "deposit") => wallets' = wallets]_vars

\* the messages accepted for a room, in send order
acceptedIn(roomId) ==
    LET ofRoom(message) == message.roomId = roomId IN SelectSeq(accepted, ofRoom)

\* the history the layer holds for a room
storedIn(roomId) ==
    IF roomId \in DOMAIN messageHistory THEN messageHistory[roomId] ELSE <<>>

\* the last n elements
lastOf(seq, n) == SubSeq(seq, Len(seq) - n + 1, Len(seq))

\* C19: the stored history of a room never holds more than 100 messages and
\* equals the most recent min(n, 100) of the n messages accepted for that
\* room, in send order; a history request is answered with exactly that list.
C19_HistoryIsLastHundred ==
    \A roomId \in RoomIds :
        LET n == Len(acceptedIn(roomId))
            recent == lastOf(acceptedIn(roomId),
                             IF n < HistoryLimit THEN n ELSE HistoryLimit)
        IN /\ Len(storedIn(roomId)) <= HistoryLimit
           /\ storedIn(roomId) = recent
           /\ (res.op = "getMessageHistory" /\ res.roomId = roomId)
                 => emitted = <<emit("messageHistory", {res.socketId}, recent)>>

\* C20: from any state of the layer, when a connection joins a room and then
\* at once leaves it, the participant count emitted by the leave equals the
\* count of that room before the join.
C20_JoinThenLeaveRestoresCount ==
    \A socketId \in DOMAIN socketRooms : \A roomId \in RoomIds :
        LET joined == joinRoom(chat, socketId, socketId, roomId)
            left == leaveRoom(joined, socketId, socketId, roomId)
        IN left.emitted[Len(left.emitted)] =
               emit("userCount", inRoom(left.socketRooms, roomId),
                    userCount(activeUsers, roomId))

\* C21: after every event no private room has an empty participant list, a
\* private room that an event deletes loses its message history with it, and
\* the global room and its history exist.
C21_PrivateRoomDestroyedWhenEmpty ==
    [][/\ \A roomId \in DOMAIN chatRooms' :
              chatRooms'[roomId].type = "private"
                  => Len(chatRooms'[roomId].participants) > 0
       /\ \A roomId \in DOMAIN chatRooms \ DOMAIN chatRooms' :
              chatRooms[roomId].type = "private"
                  => roomId \notin DOMAIN messageHistory'
       /\ "global" \in DOMAIN chatRooms'
       /\ "global" \in DOMAIN messageHistory']_vars

\* the connections that are in a room: joined to it, or counted in it
membersOf(roomId) ==
    {socketId \in DOMAIN socketRooms :
        \/ roomId \in socketRooms[socketId]
        \/ /\ mapHas(activeUsers, socketId)
           /\ mapGet(activeUsers, socketId).currentRoom = roomId}

\* C22: a send that is accepted emits its message exactly once, in the step
\* that accepts it (so in acceptance order), to a set of connections that
\* holds every connection in the target room and the sender's own connection.
C22_SendReachesRoomAndSender ==
    [][(res'.op = "sendMessage" /\ accepted' # accepted)
          => LET message == accepted'[Len(accepted')]
             IN /\ Len(emitted') = 1
                /\ emitted'[1].event = "message"
                /\ emitted'[1].payload = message
                /\ membersOf(message.roomId) \subseteq emitted'[1].to
                /\ res'.socketId \in emitted'[1].to]_vars

\* C23: in a completed match in which the practice opponent AI_Player holds
\* a PlayerMatch row, the winner is a participant of the match other than
\* the opponent.
C23_OpponentNeverWins ==
    \A matchId \in Matches :
        LET aiId == getUserByUsername(users, "AI_Player")
        IN (/\ gameMatches[matchId].status = "completed"
            /\ aiId # Null
            /\ aiId \in PlayersOf(matchId))
           => /\ gameMatches[matchId].winnerId # aiId
              /\ gameMatches[matchId].winnerId \in PlayersOf(matchId)

\* the PlayerMatch rows of a match
RowsOf(matchId) ==
    {p \in 1..Len(playerMatches) : playerMatches[p].matchId = matchId}

\* C24: when a match is completed every PlayerMatch row of it has status won
\* or lost, exactly one row has status won, and that row is the winner's.
C24_CompletedRowsSettled ==
    \A matchId \in Matches :
        gameMatches[matchId].status = "completed"
        => /\ \A p \in RowsOf(matchId) : playerMatches[p].status \in {"won", "lost"}
           /\ Cardinality({p \in RowsOf(matchId) : playerMatches[p].status = "won"}) = 1
           /\ \A p \in RowsOf(matchId) :
                  playerMatches[p].status = "won"
                      => playerMatches[p].userId = gameMatches[matchId].winnerId

\* C28: every step that adds a PlayerMatch row adds it to a match that is
\* waiting: the match is waiting after the step, and was waiting before it
\* unless the step created it.
C28_RowsAddedToWaitingOnly ==
    [][\A p \in (Len(playerMatches) + 1)..Len(playerMatches') :
          LET matchId == playerMatches'[p].matchId
          IN /\ gameMatches'[matchId].status = "waiting"
             /\ matchId \in Matches => gameMatches[matchId].status = "waiting"]_vars

\* the sum of the amounts of the first n transactions that have the given
\* type and match
RECURSIVE SumOfMatch(_, _, _)
SumOfMatch(type, matchId, n) ==
    IF n = 0 THEN 0
    ELSE NumAdd(SumOfMatch(type, matchId, n - 1),
                IF transactions[n].type = type /\ transactions[n].ref = matchId
                THEN parseFloat(transactions[n].amount) ELSE 0)

\* C27: for every match the game_win payouts recorded for it add up to no
\* more than the game_entry fees recorded for it (every fee actually debited
\* is recorded, so the recorded fees bound the debits from above).
C27_PayoutWithinCollectedFees ==
    \A matchId \in Matches :
        NumLe(SumOfMatch("game_win", matchId, Len(transactions)),
              NumNeg(SumOfMatch("game_entry", matchId, Len(transactions))))

\* the completed deposit transactions that approvals created for a request
ApprovalsOf(transactionId) ==
    {t \in 1..Len(transactions) :
        /\ transactions[t].type = "deposit"
        /\ transactions[t].status = "completed"
        /\ transactions[t].ref = transactionId}

\* C29: a deposit request is credited at most once: at most one completed
\* deposit transaction exists for it, and an approval answered with success
\* (the step that credits the owner's wallet) is the first one for its request.
C29_DepositCreditedOnce ==
    [][/\ \A transactionId \in 1..Len(transactions') :
              Cardinality(ApprovalsOf(transactionId)') <= 1
       /\ (res'.op = "approve" /\ res'.code = 200)
              => ApprovalsOf(transactions'[Len(transactions')].ref) = {}]_vars

\* the sum of the amounts of the rows of a subscription among the first n
\* reward rows; of the paid ones only when paidOnly
RECURSIVE SumRewards(_, _, _)
SumRewards(subscriptionId, paidOnly, n) ==
    IF n = 0 THEN 0
    ELSE NumAdd(SumRewards(subscriptionId, paidOnly, n - 1),
                IF /\ subscriptionRewards[n].subscriptionId = subscriptionId
                   /\ paidOnly => subscriptionRewards[n].status = "paid"
                THEN subscriptionRewards[n].amount ELSE 0)

\* C30: for every subscription the amounts of its reward rows add up to no
\* more than its rewardAmount, and so do the amounts of its rows paid so far.
C30_RewardsWithinRewardAmount ==
    \A subscriptionId \in 1..Len(subscriptions) :
        LET rewardAmount == parseFloat(subscriptions[subscriptionId].rewardAmount)
        IN /\ NumLe(SumRewards(subscriptionId, FALSE, Len(subscriptionRewards)),
                    rewardAmount)
           /\ NumLe(SumRewards(subscriptionId, TRUE, Len(subscriptionRewards)),
                    rewardAmount)

\* two start requests of one match, both answered with success
BothStarted(a, b) ==
    /\ a # b
    /\ starting[a].matchId = starting[b].matchId
    /\ starting[a].pc = "done" /\ starting[a].code = 200
    /\ starting[b].pc = "done" /\ starting[b].code = 200

\* what a user was given: the opening balance and the approved deposits
\* among the first n transactions
RECURSIVE Funded(_, _)
Funded(userId, n) ==
    IF n = 0 THEN InitialBalance(userId)
    ELSE NumAdd(Funded(userId, n - 1),
                IF /\ transactions[n].userId = userId
                   /\ transactions[n].type = "deposit"
                   /\ transactions[n].status = "completed"
                THEN parseFloat(transactions[n].amount) ELSE 0)

\* C25: with handlers interleaved at their storage awaits and no timer
\* pending, whenever two start requests of one match have both been answered
\* with success (both passed the status check before either wrote
\* in_progress), both ran the deduction loop: every player of the match has
\* at least two game_entry transactions of it and has been debited the
\* entry amount at least twice.
C25_TwoStartsChargeTwice ==
    \A a \in 1..Len(starting) : \A b \in 1..Len(starting) :
        BothStarted(a, b)
        => /\ starting[a].match.status = "waiting"
           /\ starting[b].match.status = "waiting"
           /\ \A userId \in PlayersOf(starting[a].matchId) :
                  /\ Cardinality(EntryFees(starting[a].matchId, userId)) >= 2
                  /\ NumLe(walletBalanceOf(wallets, userId),
                           NumSub(Funded(userId, Len(transactions)),
                                  2 * parseFloat(starting[a].match.entryAmount)))

C25_BothStartsCharged ==
    /\ Len(starting) = 2
    /\ BothStarted(1, 2)
    /\ timers = <<>>
    /\ gameMatches[1].status = "in_progress"
    /\ Cardinality(EntryFees(1, AdminId)) = 2
    /\ walletBalanceOf(wallets, AdminId) =
           parseFloat(transactions[1].amount)
               - 2 * parseFloat(gameMatches[1].entryAmount)

\* a timer of the given kind is pending for the match
Scheduled(kind, matchId) ==
    \E i \in 1..Len(timers) : timers[i].kind = kind /\ timers[i].matchId = matchId

====
